---- MODULE Spec2Model ----
(***************************************************************************)
(* Credential lifecycle of hc-vault: the TokenContainer, the Auth backends *)
(* (approle / kubernetes / token), Client::check_session with its          *)
(* reauth_mutex, Client::vault_request, Client::get_token and              *)
(* Client::renew_background.  Every load and store of an atomic field and  *)
(* every clock sample is one step, so that all interleavings the threads   *)
(* of the program can produce are explored.                                *)
(***************************************************************************)
EXTENDS Integers, FiniteSets, Sequences, TLC

\* ------------------------------------------------------------- bounds ----
NThreads == 2          \* request-path threads sharing one Client
MaxTime == 1           \* the clock runs 0..MaxTime (whole seconds)
MaxLease == 1          \* lease_duration a login or renew answers: 0..MaxLease
MaxCalls == 1          \* calls each request-path thread makes
MaxRenews == 1         \* renew calls the renewal loop issues
MaxStart == 2          \* SpecExpiry: the login happens at 0..MaxStart
MaxDuration == 3       \* SpecExpiry: lease_duration 0..MaxDuration
MaxElapsed == 4        \* SpecExpiry: the clock runs to start + MaxElapsed
MaxLoopTime == 4       \* SpecRenew: the clock runs 0..MaxLoopTime
MaxLoopLease == 3      \* SpecRenew: lease_duration 0..MaxLoopLease
MaxLoopRenews == 2     \* SpecRenew: renew calls the renewal loop issues
MinStatus == 100       \* SpecStatus: HTTP status codes MinStatus..MaxStatus
MaxStatus == 600
MaxSessionCalls == 2   \* SpecNew: calls made on the Session before it is given up
MaxLapsedCalls == 2    \* SpecLapsed: calls each request-path thread makes

Threads == 1..NThreads
Loop == 0                              \* the thread running renew_background
Procs == {Loop} \cup Threads
NoOne == 0 - 1                         \* reauth_mutex is free
Leases == 0..MaxLease
Policies == {"Reauth", "Nothing", "Renew"}
Thresholds == {0, 2}                   \* Renew(t), t in quarters: 0.0, 0.5
Backends == {"approle", "kubernetes", "token"}
Garbage == 0 - 2                       \* what a clone of freed memory may yield
Empty == 0                             \* String::from("") of TokenContainer::new
Statuses == {200, 204, 403}
LoopThresholds == 0..4                 \* SpecRenew: 0.0, 0.25, 0.5, 0.75, 1.0
\* a lease of about 65 days, the first past 2^24 / 3 seconds whose three
\* quarters end in .75
BigLease == (2^24 \div 3) + 4
LoopLeases == (0..MaxLoopLease) \cup {BigLease}
StatusCodes == MinStatus..MaxStatus

VARIABLES
  renew_policy,   \* Config::renew_policy
  threshold,      \* the t of RenewPolicy::Renew(t), in quarters
  backend,        \* which impl of Auth the Client owns
  now,            \* the clock, in seconds
  token,          \* TokenContainer::token, the AtomicPtr (an allocation id)
  freed,          \* allocations already dropped
  start,          \* TokenContainer::start    (token::Session::token_start)
  duration,       \* TokenContainer::duration (token::Session::token_duration)
  renewable,      \* TokenContainer::renewable
  reauth_mutex,   \* holder of Client::reauth_mutex, or NoOne
  poisoned,       \* a thread panicked while holding reauth_mutex
  aborted,        \* the process died on a read of freed memory
  pc,             \* position of every thread
  kind,           \* the operation a request-path thread is running
  loc,            \* locals of every thread
  result,         \* what the last operation of a thread returned
  sent,           \* X-Vault-Token of the request the thread last sent
  marked,         \* X-Vault-Request: true was on the request last sent
  got,            \* what the thread's last get_token() returned
  calls,          \* calls made so far per thread
  slow,           \* the first is_expired() of the current call was true
  tookLock,       \* the current call acquired reauth_mutex
  startedAfterExpired, \* the call began after a SessionExpired was returned
  callLogins,     \* login calls issued by the current call of a thread
  everActive,     \* threads that have started an operation
  fastWhileLocked,\* a fast-path return happened while a login was in flight
  expiredSeen,    \* some call has returned SessionExpired
  loginCount,     \* login calls issued since construction
  renewCount,     \* renew calls issued
  renewOks,       \* renew calls that returned Ok(())
  lastRenew,      \* the answer to the latest successful renew
  firstLogin,     \* the answer to the first login since construction
  lastLogin,      \* the answer to the latest login, and the thread it went to
  written,        \* <<start, duration>> pairs stored together by one write
  writers         \* threads that have stored a credential since construction

conf == <<renew_policy, threshold, backend>>
store == <<token, freed, start, duration, renewable>>
sync == <<reauth_mutex, poisoned, aborted>>
outs == <<sent, got, marked>>
callHist == <<calls, slow, tookLock, startedAfterExpired, callLogins, everActive>>
hist == <<fastWhileLocked, loginCount, renewCount, renewOks, firstLogin,
          lastLogin, lastRenew, written, writers>>

vars == <<conf, store, sync, outs, callHist, hist, now, pc, kind, loc, result,
          expiredSeen>>

\* --------------------------------------------------- pure functions ----
\* approle::Session::is_expired / kubernetes::Session::is_expired /
\* token::Session::is_expired: elapsed >= duration
is_expired_Strict(start_time, current_time, dur) ==
  (current_time - start_time) > dur

is_expired_Swapped(start_time, current_time, dur) ==
  (start_time - current_time) >= dur

is_expired(start_time, current_time, dur) ==
  (current_time - start_time) >= dur

\* impl From<u16> for Error
from_status_code_NoSealed(c) ==
  CASE c = 400 -> "InvalidRequest"
    [] c = 403 -> "Unauthorized"
    [] c = 404 -> "NotFound"
    [] OTHER   -> "Other"

from_status_code(c) ==
  CASE c = 400 -> "InvalidRequest"
    [] c = 403 -> "Unauthorized"
    [] c = 404 -> "NotFound"
    [] c = 503 -> "IsSealed"
    [] OTHER   -> "Other"

\* Error::from_status_code, which auth and renew call: the status-code
\* mapping of the specification (400, 403, 404, 503, anything else)
Error_from_status_code(c) ==
  CASE c = 400 -> "InvalidRequest"
    [] c = 403 -> "Unauthorized"
    [] c = 404 -> "NotFound"
    [] c = 503 -> "IsSealed"
    [] OTHER   -> "Other"

\* vault_request: match status_code { 200 | 204 => Ok(resp),
\*                                    _ => Err(Error::from(status_code)) }
vault_request_status(c) ==
  IF c \in {200, 204} THEN "Ok" ELSE from_status_code(c)

\* auth and renew: if status_code != 200 && status_code != 204
\*                  { return Err(Error::from_status_code(status_code)); }
session_status(c) ==
  IF c # 200 /\ c # 204 THEN Error_from_status_code(c) ELSE "Ok"

\* the match on renew_policy in check_session: does the slow path call auth?
PolicyReauths_All(p) == TRUE

PolicyReauths_Renew(p) == p \in {"Reauth", "Renew"}

PolicyReauths(p) == p = "Reauth"

\* the second is_expired() in check_session, under the mutex
Recheck_Skipped(expired) == TRUE

Recheck(expired) == expired

\* f32 arithmetic: a value keeps a significand of 24 bits.  f32_ulp(v) is
\* the distance between neighbouring f32 values at v, in the unit v is
\* counted in; f32_round(v) is the f32 nearest to v, ties to even.
F32Exact == 2^24

f32_ulp(v) ==
  CHOOSE u \in {2^k : k \in 0..7} :
    /\ v \div u < F32Exact
    /\ u = 1 \/ v \div (u \div 2) >= F32Exact

f32_round(v) ==
  LET u == f32_ulp(v)
      lo == (v \div u) * u
      r == v - lo
  IN  IF 2 * r < u THEN lo
      ELSE IF 2 * r > u THEN lo + u
      ELSE IF (lo \div u) % 2 = 0 THEN lo ELSE lo + u

\* ((total_duration as f32) * (1.0 - threshold)) as u64, threshold t in
\* quarters: the cast and the product round to f32 (the product is counted
\* in quarters of a second), the cast to u64 truncates
wait_duration_Full(total_duration, t) == total_duration

wait_duration(total_duration, t) ==
  f32_round(f32_round(total_duration) * (4 - t)) \div 4

NoLocals == [start_time |-> 0, current_time |-> 0, duration |-> 0,
             raw_token |-> 0, renewable |-> FALSE, expired |-> FALSE,
             total_duration |-> 0, wait_duration |-> 0, wake |-> 0,
             status_code |-> 0]

Session == backend \in {"approle", "kubernetes"}

\* no login has been answered yet.  `err` is the Error a failed login
\* returned; `why` tells a transport error, a status and a decode failure
\* apart; `oks` counts the logins answered with a decoded body so far
NoLogin == [ok |-> FALSE, by |-> NoOne, token |-> 0, err |-> "none",
            why |-> "none", oks |-> 0]

\* ------------------------------------------------------------- Init ----
\* The state after Client::new: auth() has run once at time 0.  The session
\* backends hold the first issued token (allocation 1; allocation 0, the
\* empty string of TokenContainer::new, was dropped by set_token).
Init ==
  /\ renew_policy \in Policies
  /\ threshold \in (IF renew_policy = "Renew" THEN Thresholds ELSE {0})
  /\ backend \in Backends
  /\ now = 0
  /\ token = 1
  /\ freed = (IF backend = "token" THEN {} ELSE {0})
  /\ start = 0
  /\ duration \in Leases
  /\ renewable \in (IF backend = "token" THEN {FALSE} ELSE BOOLEAN)
  /\ reauth_mutex = NoOne
  /\ poisoned = FALSE
  /\ aborted = FALSE
  /\ pc = [p \in Procs |-> "idle"]
  /\ kind = [p \in Procs |-> "none"]
  /\ loc = [p \in Procs |-> NoLocals]
  /\ result = [p \in Procs |-> "none"]
  /\ sent = [p \in Procs |-> 0]
  /\ got = [p \in Procs |-> 0]
  /\ marked = [p \in Procs |-> FALSE]
  /\ calls = [p \in Procs |-> 0]
  /\ slow = [p \in Procs |-> FALSE]
  /\ tookLock = [p \in Procs |-> FALSE]
  /\ startedAfterExpired = [p \in Procs |-> FALSE]
  /\ callLogins = [p \in Procs |-> 0]
  /\ everActive = {}
  /\ fastWhileLocked = FALSE
  /\ expiredSeen = FALSE
  /\ loginCount = 0
  /\ renewCount = 0
  /\ renewOks = 0
  /\ lastRenew = [at |-> 0, lease |-> 0, renewable |-> FALSE]
  /\ firstLogin = [ok |-> FALSE, start |-> 0, lease |-> 0, token |-> 0]
  /\ lastLogin = NoLogin
  /\ written = {<<0, 0>>, <<0, duration>>}
  /\ writers = {}

\* ---------------------------------------------------------- helpers ----
Goto(t, l) == pc' = [pc EXCEPT ![t] = l]

\* the operation of thread t returns r to its caller
Return(t, r) ==
  /\ Goto(t, "idle")
  /\ result' = [result EXCEPT ![t] = r]
  /\ loc' = [loc EXCEPT ![t] = NoLocals]
  /\ expiredSeen' = (expiredSeen \/ r = "SessionExpired")

\* thread t moves on inside its operation, its locals cleared
Continue(t, l) ==
  /\ Goto(t, l)
  /\ loc' = [loc EXCEPT ![t] = NoLocals]
  /\ UNCHANGED <<result, expiredSeen>>

\* ------------------------------------------------------------ clock ----
Tick ==
  /\ ~aborted
  /\ now < MaxTime
  /\ now' = now + 1
  /\ UNCHANGED <<conf, store, sync, outs, callHist, hist, pc, kind, loc,
                 result, expiredSeen>>

\* -------------------------------------------- a thread starts a call ----
\* Client::check_session, Client::vault_request or Client::get_token; a
\* thread makes at most `most` calls
CallUpTo(t, k, most) ==
  /\ pc[t] = "idle"
  /\ calls[t] < most
  /\ calls' = [calls EXCEPT ![t] = @ + 1]
  /\ kind' = [kind EXCEPT ![t] = k]
  /\ Goto(t, IF k = "get_token" THEN "gt_load" ELSE "c1_start")
  /\ result' = [result EXCEPT ![t] = "none"]
  /\ slow' = [slow EXCEPT ![t] = FALSE]
  /\ tookLock' = [tookLock EXCEPT ![t] = FALSE]
  /\ callLogins' = [callLogins EXCEPT ![t] = 0]
  /\ startedAfterExpired' = [startedAfterExpired EXCEPT ![t] = expiredSeen]
  /\ sent' = [sent EXCEPT ![t] = 0]
  /\ got' = [got EXCEPT ![t] = 0]
  /\ marked' = [marked EXCEPT ![t] = FALSE]
  /\ everActive' = everActive \cup {t}
  /\ UNCHANGED <<conf, store, sync, hist, now, loc, expiredSeen>>

Call(t, k) == CallUpTo(t, k, MaxCalls)

\* ------------------------------------------------- Auth::is_expired ----
\* let start_time = self.token.get_start();
IsExpiredStart(t) ==
  /\ pc[t] \in {"c1_start", "c2_start"}
  /\ loc' = [loc EXCEPT ![t].start_time = start]
  /\ Goto(t, IF pc[t] = "c1_start" THEN "c1_now" ELSE "c2_now")
  /\ UNCHANGED <<conf, store, sync, outs, callHist, hist, now, kind, result,
                 expiredSeen>>

\* let current_time = utils::now_timestamp();
\* (the _Stale variant: a clock reading taken at some moment up to now, as
\* when the clock is sampled before get_start())
IsExpiredNow_Stale(t) ==
  /\ pc[t] \in {"c1_now", "c2_now"}
  /\ \E c \in 0..now : loc' = [loc EXCEPT ![t].current_time = c]
  /\ Goto(t, IF pc[t] = "c1_now" THEN "c1_dur" ELSE "c2_dur")
  /\ UNCHANGED <<conf, store, sync, outs, callHist, hist, now, kind, result,
                 expiredSeen>>

IsExpiredNow(t) ==
  /\ pc[t] \in {"c1_now", "c2_now"}
  /\ loc' = [loc EXCEPT ![t].current_time = now]
  /\ Goto(t, IF pc[t] = "c1_now" THEN "c1_dur" ELSE "c2_dur")
  /\ UNCHANGED <<conf, store, sync, outs, callHist, hist, now, kind, result,
                 expiredSeen>>

\* let duration = self.token.get_duration(); elapsed >= duration
IsExpiredDuration(t) ==
  /\ pc[t] \in {"c1_dur", "c2_dur"}
  /\ loc' = [loc EXCEPT ![t].duration = duration,
                        ![t].expired = is_expired(loc[t].start_time,
                                                  loc[t].current_time, duration)]
  /\ Goto(t, IF pc[t] = "c1_dur" THEN "c1_ret" ELSE "c2_ret")
  /\ UNCHANGED <<conf, store, sync, outs, callHist, hist, now, kind, result,
                 expiredSeen>>

\* --------------------------------------------- Client::check_session ----
\* check_session returns Ok(()): vault_request goes on, check_session is done
CheckOk(t) ==
  IF kind[t] = "vault_request" THEN Continue(t, "vr_url") ELSE Return(t, "Ok")

\* a login of another thread is between its request and its response
LoginInFlight(t) ==
  reauth_mutex \in Threads \ {t} /\ pc[reauth_mutex] = "a_recv"

\* if !self.auth.is_expired() { return Ok(()); }   (no lock taken)
FirstCheck_Locking(t) ==
  /\ pc[t] = "c1_ret"
  /\ slow' = [slow EXCEPT ![t] = loc[t].expired]
  /\ Continue(t, "lock")
  /\ UNCHANGED fastWhileLocked

FirstCheck(t) ==
  /\ pc[t] = "c1_ret"
  /\ slow' = [slow EXCEPT ![t] = loc[t].expired]
  /\ IF loc[t].expired
     THEN /\ Continue(t, "lock")
          /\ UNCHANGED fastWhileLocked
     ELSE /\ CheckOk(t)
          /\ fastWhileLocked' = (fastWhileLocked \/ LoginInFlight(t))

FirstCheckStep(t) ==
  /\ FirstCheck(t)
  /\ UNCHANGED <<conf, store, sync, outs, now, kind, calls, tookLock,
                 startedAfterExpired, callLogins, everActive, loginCount,
                 renewCount, renewOks, firstLogin, lastLogin, lastRenew,
                 written, writers>>

\* reauth_mutex can be taken: no check_session holds it (renew_background
\* never locks it)
GateFree_LoopHolds ==
  reauth_mutex = NoOne /\ pc[Loop] \notin {"r_load", "r_clone", "r_recv"}

GateFree_Open == TRUE

GateFree == reauth_mutex = NoOne

\* let _data = self.reauth_mutex.lock().unwrap();
\* lock() of a poisoned mutex is an Err and unwrap() panics
Lock(t) ==
  /\ pc[t] = "lock"
  /\ GateFree
  /\ IF poisoned
     THEN /\ Goto(t, "panicked")
          /\ UNCHANGED <<reauth_mutex, tookLock>>
     ELSE /\ reauth_mutex' = t
          /\ tookLock' = [tookLock EXCEPT ![t] = TRUE]
          /\ Goto(t, "c2_start")
  /\ UNCHANGED <<conf, store, poisoned, aborted, outs, calls, slow,
                 startedAfterExpired, callLogins, everActive, hist, now, kind,
                 loc, result, expiredSeen>>

\* the re-check under the mutex and the match on renew_policy; _data is
\* dropped (the mutex released) on every return.  Session::auth starts by
\* parsing vault_url (the url Client::new has already logged in with) and
\* sends the login request: http_client.post(login_url).json(..).send()
SecondCheck(t) ==
  /\ pc[t] = "c2_ret"
  /\ IF ~Recheck(loc[t].expired)
     THEN /\ CheckOk(t)
          /\ reauth_mutex' = NoOne
          /\ UNCHANGED <<loginCount, callLogins>>
     ELSE IF PolicyReauths(renew_policy)
     THEN IF Session
          THEN /\ Continue(t, "a_recv")
               /\ loginCount' = loginCount + 1
               /\ callLogins' = [callLogins EXCEPT ![t] = @ + 1]
               /\ UNCHANGED reauth_mutex
          ELSE \* token::Session::auth is Ok(())
               /\ CheckOk(t)
               /\ reauth_mutex' = NoOne
               /\ UNCHANGED <<loginCount, callLogins>>
     ELSE /\ Return(t, "SessionExpired")
          /\ reauth_mutex' = NoOne
          /\ UNCHANGED <<loginCount, callLogins>>
  /\ UNCHANGED <<conf, store, poisoned, aborted, outs, calls, slow, tookLock,
                 startedAfterExpired, everActive, fastWhileLocked, renewCount,
                 renewOks, firstLogin, lastLogin, lastRenew, written, writers,
                 now, kind>>

\* ---------------------------------- approle / kubernetes Session::auth ----
\* an Err leaves auth before any set_* call; in check_session it drops the
\* mutex guard on the way out
AuthErr_Swallowed(t, e, why) ==
  /\ CheckOk(t)
  /\ reauth_mutex' = NoOne
  /\ lastLogin' = [ok |-> FALSE, by |-> t, token |-> 0, err |-> e,
                   why |-> why, oks |-> lastLogin.oks]
  /\ UNCHANGED <<store, poisoned, firstLogin>>

AuthErr_KeepsGate(t, e, why) ==
  /\ Return(t, e)
  /\ lastLogin' = [ok |-> FALSE, by |-> t, token |-> 0, err |-> e,
                   why |-> why, oks |-> lastLogin.oks]
  /\ UNCHANGED <<store, reauth_mutex, poisoned, firstLogin>>

AuthErr_ClearsLease(t, e, why) ==
  /\ Return(t, e)
  /\ reauth_mutex' = NoOne
  /\ lastLogin' = [ok |-> FALSE, by |-> t, token |-> 0, err |-> e,
                   why |-> why, oks |-> lastLogin.oks]
  /\ duration' = 0
  /\ UNCHANGED <<token, freed, start, renewable, poisoned, firstLogin>>

AuthErr(t, e, why) ==
  /\ Return(t, e)
  /\ reauth_mutex' = NoOne
  /\ lastLogin' = [ok |-> FALSE, by |-> t, token |-> 0, err |-> e,
                   why |-> why, oks |-> lastLogin.oks]
  /\ UNCHANGED <<store, poisoned, firstLogin>>

\* the answer to the login: a transport error, a status, a body
AuthRecv(t) ==
  /\ pc[t] = "a_recv"
  /\ \/ AuthErr(t, "ReqwestError", "transport")
     \/ \E s \in Statuses \ {200, 204} :
          AuthErr(t, session_status(s), "status")
     \/ \* response.json() fails: approle returns the error with `?`,
        \* kubernetes panics in data.unwrap(), which poisons the mutex
        \* when the caller holds it
        IF backend = "approle"
        THEN AuthErr(t, "ReqwestError", "decode")
        ELSE /\ Goto(t, "panicked")
             /\ reauth_mutex' = (IF reauth_mutex = t THEN NoOne
                                 ELSE reauth_mutex)
             /\ poisoned' = (poisoned \/ reauth_mutex = t)
             /\ lastLogin' = [ok |-> FALSE, by |-> t, token |-> 0,
                              err |-> "ReqwestError", why |-> "decode",
                              oks |-> lastLogin.oks]
             /\ UNCHANGED <<store, loc, result, expiredSeen, firstLogin>>
     \/ \E lease \in Leases, rn \in BOOLEAN :
          /\ loc' = [loc EXCEPT ![t] = [NoLocals EXCEPT !.current_time = now,
                                                       !.duration = lease,
                                                       !.renewable = rn]]
          /\ Goto(t, "a_swap")
          /\ firstLogin' = IF loginCount = 1
                           THEN [ok |-> TRUE, start |-> now, lease |-> lease,
                                 token |-> loginCount + 1]
                           ELSE firstLogin
          /\ lastLogin' = [ok |-> TRUE, by |-> t, token |-> loginCount + 1,
                           err |-> "none", why |-> "none",
                           oks |-> lastLogin.oks + 1]
          /\ UNCHANGED <<store, result, expiredSeen, reauth_mutex, poisoned>>
  /\ UNCHANGED <<conf, aborted, outs, callHist, fastWhileLocked,
                 loginCount, renewCount, renewOks, lastRenew, written, writers,
                 now, kind>>

\* --------------------------------------------------- TokenContainer ----
\* set_token: Box::into_raw(Box::new(token)); self.token.swap(new_ptr)
SetTokenSwap(t) ==
  /\ pc[t] = "a_swap"
  /\ token' = loginCount + 1
  /\ loc' = [loc EXCEPT ![t].raw_token = token]
  /\ Goto(t, "a_drop")
  /\ UNCHANGED <<conf, freed, start, duration, renewable, sync, outs, callHist,
                 hist, now, kind, result, expiredSeen>>

\* set_token: drop(Box::from_raw(old_ptr))
SetTokenDrop(t) ==
  /\ pc[t] = "a_drop"
  /\ freed' = freed \cup {loc[t].raw_token}
  /\ Goto(t, "a_renewable")
  /\ UNCHANGED <<conf, token, start, duration, renewable, sync, outs, callHist,
                 hist, now, kind, loc, result, expiredSeen>>

\* set_renewable, in auth and in renew
SetRenewable(t) ==
  /\ pc[t] \in {"a_renewable", "r_renewable"}
  /\ renewable' = loc[t].renewable
  /\ Goto(t, IF pc[t] = "a_renewable" THEN "a_start" ELSE "r_start")
  /\ UNCHANGED <<conf, token, freed, start, duration, sync, outs, callHist,
                 hist, now, kind, loc, result, expiredSeen>>

\* set_start(current_time), in auth and in renew
SetStart(t) ==
  /\ pc[t] \in {"a_start", "r_start"}
  /\ start' = loc[t].current_time
  /\ written' = written \cup {<<loc[t].current_time, loc[t].duration>>}
  /\ writers' = writers \cup {t}
  /\ Goto(t, IF pc[t] = "a_start" THEN "a_dur" ELSE "r_dur")
  /\ UNCHANGED <<conf, token, freed, duration, renewable, sync, outs, callHist,
                 fastWhileLocked, loginCount, renewCount, renewOks, firstLogin,
                 lastLogin, lastRenew, now, kind, loc, result, expiredSeen>>

\* renew_background, match self.auth.renew(..) { Ok(_) => {} .. }: the loop
\* goes round again
RenewOk_Returns(t) == Return(t, "Ok")

RenewOk(t) == Continue(t, "rb_renewable")

\* set_duration(duration); Ok(()): auth returns into check_session, which
\* returns and drops the mutex guard; renew returns into the loop
SetDuration(t) ==
  /\ pc[t] \in {"a_dur", "r_dur"}
  /\ duration' = loc[t].duration
  /\ IF pc[t] = "a_dur"
     THEN /\ CheckOk(t)
          /\ reauth_mutex' = NoOne
          /\ UNCHANGED renewOks
     ELSE /\ RenewOk(t)
          /\ renewOks' = renewOks + 1
          /\ UNCHANGED reauth_mutex
  /\ UNCHANGED <<conf, token, freed, start, renewable, poisoned, aborted, outs,
                 callHist, fastWhileLocked, loginCount, renewCount, firstLogin,
                 lastLogin, lastRenew, written, writers, now, kind>>

\* get_token: let raw_token = self.token.load(SeqCst);
GetTokenLoad(t) ==
  /\ pc[t] \in {"gt_load", "r_load"}
  /\ loc' = [loc EXCEPT ![t].raw_token = token]
  /\ Goto(t, IF pc[t] = "gt_load" THEN "gt_clone" ELSE "r_clone")
  /\ UNCHANGED <<conf, store, sync, outs, callHist, hist, now, kind, result,
                 expiredSeen>>

\* the String that get_token hands to its caller.  renew puts it in the
\* X-Vault-Token header of the renew request and sends it; vault_request
\* puts it in the X-Vault-Token header of the request, sends it and maps the
\* answer: 200 | 204 => Ok(resp), _ => Err(Error::from(status_code))
Deliver(t, v) ==
  /\ aborted' = aborted
  /\ IF pc[t] = "r_clone"
     THEN /\ sent' = [sent EXCEPT ![t] = v]
          /\ Continue(t, "r_recv")
          /\ UNCHANGED <<got, marked>>
     ELSE IF kind[t] = "get_token"
     THEN /\ got' = [got EXCEPT ![t] = v]
          /\ Return(t, "Ok")
          /\ UNCHANGED <<sent, marked>>
     ELSE /\ sent' = [sent EXCEPT ![t] = v]
          /\ marked' = [marked EXCEPT ![t] = TRUE]
          /\ \/ Return(t, "ReqwestError")
             \/ \E s \in Statuses : Return(t, vault_request_status(s))
          /\ UNCHANGED got

\* get_token: unsafe { raw_token.as_ref() } ... s.clone().  A clone of a
\* dropped Box is undefined: any token, garbage, or the end of the process.
GetTokenClone(t) ==
  /\ pc[t] \in {"gt_clone", "r_clone"}
  /\ IF loc[t].raw_token \in freed
     THEN \/ \E v \in (1..token) \cup {Garbage} : Deliver(t, v)
          \/ /\ aborted' = TRUE
             /\ pc' = [p \in Procs |-> "aborted"]
             /\ UNCHANGED <<loc, outs, result, expiredSeen>>
     ELSE Deliver(t, loc[t].raw_token)
  /\ UNCHANGED <<conf, store, reauth_mutex, poisoned, callHist, hist, now,
                 kind>>

\* --------------------------------------------- Client::vault_request ----
\* Url::parse(vault_url), join("v1/"), join(path): an Err returns
VrUrl(t) ==
  /\ pc[t] = "vr_url"
  /\ \/ Return(t, "ParseError")
     \/ Continue(t, "gt_load")
  /\ UNCHANGED <<conf, store, sync, outs, callHist, hist, now, kind>>

\* ------------------------------------------ Client::renew_background ----
\* the match on renew_policy: only Renew(t) enters the loop
PolicyRenews_Any(p) == TRUE

PolicyRenews(p) == p = "Renew"

\* anything but Renew(t) is Err(RenewError::NotEnabled)
RbCall ==
  /\ pc[Loop] = "idle"
  /\ calls[Loop] = 0
  /\ calls' = [calls EXCEPT ![Loop] = 1]
  /\ kind' = [kind EXCEPT ![Loop] = "renew_background"]
  /\ everActive' = everActive \cup {Loop}
  /\ IF PolicyRenews(renew_policy)
     THEN Continue(Loop, "rb_renewable")
     ELSE Return(Loop, "NotEnabled")
  /\ UNCHANGED <<conf, store, sync, outs, slow, tookLock, startedAfterExpired,
                 callLogins, hist, now>>

\* Auth::is_renewable: get_renewable() of the TokenContainer; true for
\* token::Session
is_renewable_Always == TRUE

is_renewable == IF Session THEN renewable ELSE TRUE

\* Auth::get_total_duration: get_duration() of the TokenContainer; 0 for
\* token::Session
get_total_duration == IF Session THEN duration ELSE 0

\* if !self.auth.is_renewable() { return Err(RenewError::NotRenewable); }
RbRenewable ==
  /\ pc[Loop] = "rb_renewable"
  /\ IF is_renewable
     THEN Continue(Loop, "rb_total")
     ELSE Return(Loop, "NotRenewable")
  /\ UNCHANGED <<conf, store, sync, outs, callHist, hist, now, kind>>

\* get_total_duration(), wait_duration, and the start of thread::sleep
RbTotal ==
  /\ pc[Loop] = "rb_total"
  /\ LET total == get_total_duration
         wait == wait_duration(total, threshold)
     IN  loc' = [loc EXCEPT ![Loop].total_duration = total,
                            ![Loop].wait_duration = wait,
                            ![Loop].wake = now + wait]
  /\ Goto(Loop, "rb_sleep")
  /\ UNCHANGED <<conf, store, sync, outs, callHist, hist, now, kind, result,
                 expiredSeen>>

\* the sleep is over; self.auth.renew(..) is called.  token::Session::renew
\* is Ok(()); the others parse the url and read the token.  At most `most`
\* renew calls are followed.
RenewCall(most) ==
  /\ pc[Loop] = "rb_sleep"
  /\ now >= loc[Loop].wake
  /\ renewCount < most
  /\ renewCount' = renewCount + 1
  /\ IF Session THEN Continue(Loop, "r_load") ELSE RenewOk(Loop)
  /\ renewOks' = IF Session THEN renewOks ELSE renewOks + 1
  /\ UNCHANGED <<conf, store, sync, outs, callHist, fastWhileLocked,
                 loginCount, firstLogin, lastLogin, lastRenew, written, writers,
                 now, kind>>

RbWake == RenewCall(MaxRenews)

\* an Err of renew ends the loop: return Err(RenewError::from(e))
RenewErr_Retried(e) ==
  /\ Continue(Loop, "rb_renewable")

RenewErr(e) ==
  /\ Return(Loop, e)

\* the locals of renew after a decoded answer: current_time, duration,
\* renewable
RenewLocals_KeepsLease(current_time, lease, rn) ==
  [NoLocals EXCEPT !.current_time = current_time,
                   !.duration = duration,
                   !.renewable = rn]

RenewLocals(current_time, lease, rn) ==
  [NoLocals EXCEPT !.current_time = current_time,
                   !.duration = lease,
                   !.renewable = rn]

\* the answer to the renew: a transport error, a status, a body whose
\* lease_duration is one of `leases`
RenewAnswer(leases) ==
  /\ pc[Loop] = "r_recv"
  /\ \/ /\ RenewErr("ReqwestError")
        /\ UNCHANGED lastRenew
     \/ /\ \E s \in Statuses \ {200, 204} : RenewErr(session_status(s))
        /\ UNCHANGED lastRenew
     \/ \* response.json() fails: approle returns the error with `?`,
        \* kubernetes panics in data.unwrap()
        /\ IF backend = "approle"
           THEN RenewErr("ReqwestError")
           ELSE /\ Goto(Loop, "panicked")
                /\ UNCHANGED <<loc, result, expiredSeen>>
        /\ UNCHANGED lastRenew
     \/ \E lease \in leases, rn \in BOOLEAN :
          /\ loc' = [loc EXCEPT ![Loop] = RenewLocals(now, lease, rn)]
          /\ lastRenew' = [at |-> now, lease |-> lease, renewable |-> rn]
          /\ Goto(Loop, "r_renewable")
          /\ UNCHANGED <<result, expiredSeen>>
  /\ UNCHANGED <<conf, store, sync, outs, callHist, fastWhileLocked,
                 loginCount, renewCount, renewOks, firstLogin, lastLogin,
                 written, writers, now, kind>>

RenewRecv == RenewAnswer(Leases)

\* ------------------------------------------------------------- Next ----
Kinds == {"check_session", "vault_request", "get_token"}

Request(t) ==
  \/ \E k \in Kinds : Call(t, k)
  \/ IsExpiredStart(t)
  \/ IsExpiredNow(t)
  \/ IsExpiredDuration(t)
  \/ FirstCheckStep(t)
  \/ Lock(t)
  \/ SecondCheck(t)
  \/ AuthRecv(t)
  \/ SetTokenSwap(t)
  \/ SetTokenDrop(t)
  \/ VrUrl(t)

Renewal ==
  \/ RbCall
  \/ RbRenewable
  \/ RbTotal
  \/ RbWake
  \/ RenewRecv

Shared(t) ==
  \/ SetRenewable(t)
  \/ SetStart(t)
  \/ SetDuration(t)
  \/ GetTokenLoad(t)
  \/ GetTokenClone(t)

Next ==
  \/ Tick
  \/ \E t \in Threads : Request(t)
  \/ Renewal
  \/ \E t \in Procs : Shared(t)

Spec == Init /\ [][Next]_vars

\* ===================================================== the claims ====
CheckKinds == {"check_session", "vault_request"}

\* inside Session::auth or Session::renew
AuthPcs == {"a_recv", "a_swap", "a_drop", "a_renewable", "a_start", "a_dur"}
RenewPcs == {"r_load", "r_clone", "r_recv", "r_renewable", "r_start", "r_dur"}

\* the first is_expired() of the call of t, the one before the lock
FirstCheckPcs == {"c1_start", "c1_now", "c1_dur", "c1_ret"}

\* the call of t has returned to its caller
Returned(t) == pc[t] = "idle" /\ result[t] # "none"

\* the first login since construction was answered with a lease that has
\* not run out
FirstLeaseHolds ==
  firstLogin.ok /\ ~is_expired(firstLogin.start, now, firstLogin.lease)

\* C1 -- single-flight: under Reauth, while the lease of the first login
\* since construction lasts, that login is the only one; every check_session
\* has returned Ok; and once a caller that found the credential expired has
\* returned, the token a get_token reads is the newly issued one.
C1_SingleFlight ==
  (renew_policy = "Reauth" /\ Session /\ FirstLeaseHolds) =>
    /\ loginCount = 1
    /\ \A t \in Threads :
         (kind[t] = "check_session" /\ Returned(t)) => result[t] = "Ok"
    /\ \A t \in Threads :
         (kind[t] = "check_session" /\ Returned(t) /\ slow[t]) =>
           token = firstLogin.token /\ token \notin freed

\* two callers raced the expired credential and both have returned
C1_Witness ==
  /\ renew_policy = "Reauth" /\ Session /\ FirstLeaseHolds
  /\ loginCount = 1
  /\ \A t \in Threads :
       kind[t] = "check_session" /\ Returned(t) /\ slow[t] /\ tookLock[t]

\* C2 -- no get_token is between loading the token pointer and cloning its
\* referent when set_token has dropped that referent.
C2_NoUseAfterFree ==
  \A t \in Procs :
    pc[t] \in {"gt_clone", "r_clone"} => loc[t].raw_token \notin freed

\* C3 -- no torn read: the start and the duration an is_expired() has read
\* were stored together by one write.
C3_NoTornRead ==
  \A t \in Threads :
    pc[t] \in {"c1_ret", "c2_ret"} =>
      <<loc[t].start_time, loc[t].duration>> \in written

\* C4 -- exclusive writer: at most one auth or renew is in progress.
C4_ExclusiveWriter ==
  Cardinality({p \in Procs : pc[p] \in AuthPcs \cup RenewPcs}) <= 1

\* a renew is in flight while a request-path caller is in the slow path,
\* holding the gate
C4_Witness ==
  /\ pc[Loop] = "r_recv"
  /\ \E t \in Threads : reauth_mutex = t /\ pc[t] = "c2_ret" /\ loc[t].expired

C6_NothingNoCall ==
  renew_policy = "Nothing" =>
    /\ loginCount = 0 /\ renewCount = 0 /\ writers = {}
    /\ token = 1 /\ start = 0 /\ written = {<<0, 0>>, <<0, duration>>}
    /\ \A t \in Threads : pc[t] \notin AuthPcs
    /\ \A t \in Threads :
         (kind[t] \in CheckKinds /\ Returned(t) /\ slow[t]) =>
           result[t] = "SessionExpired"

C6_Witness ==
  /\ renew_policy = "Nothing"
  /\ \E t \in Threads :
       /\ kind[t] = "check_session" /\ Returned(t) /\ slow[t]
       /\ result[t] = "SessionExpired"

\* C7 -- under Nothing, a check_session or vault_request that begins after
\* a SessionExpired was returned returns SessionExpired too.
C7_NothingNeverRecovers ==
  renew_policy = "Nothing" =>
    \A t \in Threads :
      (kind[t] \in CheckKinds /\ Returned(t) /\ startedAfterExpired[t]) =>
        result[t] = "SessionExpired"

C7_Witness ==
  /\ renew_policy = "Nothing"
  /\ \E t, u \in Threads :
       /\ t # u
       /\ Returned(u) /\ result[u] = "SessionExpired"
       /\ kind[t] = "vault_request" /\ Returned(t) /\ startedAfterExpired[t]
       /\ result[t] = "SessionExpired"

\* C8 -- under Renew(threshold) the request path never writes the
\* credential: no login is issued, no request thread is ever inside auth,
\* every write is the renewal loop's, and until the loop has written, a
\* check_session that found the credential expired returns SessionExpired.
C8_RenewRequestPathReadOnly ==
  renew_policy = "Renew" =>
    /\ loginCount = 0
    /\ writers \subseteq {Loop}
    /\ \A t \in Threads : pc[t] \notin AuthPcs \cup RenewPcs
    /\ \A t \in Threads :
         (kind[t] \in CheckKinds /\ Returned(t) /\ slow[t] /\ writers = {}) =>
           result[t] = "SessionExpired"

C8_Witness ==
  /\ renew_policy = "Renew" /\ Session
  /\ writers = {Loop}
  /\ \E t \in Threads :
       /\ kind[t] = "check_session" /\ Returned(t) /\ slow[t]
       /\ result[t] = "SessionExpired"

\* C9 -- the fast path takes no lock: during its first is_expired() a call
\* holds no gate and its next step is never blocked, whoever holds the gate;
\* a call whose first is_expired() was false never waits for or takes the
\* gate, and a check_session of that kind has returned Ok.
C9_FastPathNoLock ==
  \A t \in Threads :
    /\ pc[t] \in FirstCheckPcs =>
         /\ ~tookLock[t] /\ reauth_mutex # t
         /\ ENABLED (IsExpiredStart(t) \/ IsExpiredNow(t)
                       \/ IsExpiredDuration(t) \/ FirstCheckStep(t))
    /\ (kind[t] \in CheckKinds /\ pc[t] \notin FirstCheckPcs /\ ~slow[t]
          /\ ~aborted) =>
         /\ ~tookLock[t] /\ reauth_mutex # t
         /\ pc[t] \in {"idle", "vr_url", "gt_load", "gt_clone"}
         /\ kind[t] = "check_session" => result[t] = "Ok"

\* a fast-path caller returned Ok while another thread held the gate with
\* its login in flight
C9_Witness ==
  /\ fastWhileLocked
  /\ \E t, u \in Threads :
       /\ kind[t] = "check_session" /\ Returned(t) /\ ~slow[t]
       /\ result[t] = "Ok"
       /\ reauth_mutex = u /\ pc[u] = "a_recv"

\* C11 -- under Reauth or Nothing renew_background returns NotEnabled at
\* once: the loop thread is never past the match on renew_policy (never
\* asleep, never inside renew), no renew is issued, nothing is sent or
\* stored by it.
C11_NotEnabled ==
  renew_policy \in {"Reauth", "Nothing"} =>
    /\ pc[Loop] \in {"idle", "aborted"}
    /\ renewCount = 0 /\ sent[Loop] = 0 /\ Loop \notin writers
    /\ calls[Loop] = 1 => result[Loop] = "NotEnabled"

C11_Witness ==
  /\ renew_policy \in {"Reauth", "Nothing"}
  /\ calls[Loop] = 1 /\ pc[Loop] = "idle" /\ result[Loop] = "NotEnabled"

\* C16 -- the renewal loop never holds reauth_mutex; while it sleeps or is
\* inside renew, every step of a caller's first is_expired() and of its
\* return is enabled, and a caller waiting at lock() that cannot take the
\* mutex is waiting for another request-path thread.
C16_LoopNeverBlocks ==
  /\ reauth_mutex # Loop
  /\ \A t \in Threads :
       /\ (pc[t] \in FirstCheckPcs /\ pc[Loop] \in {"rb_sleep"} \cup RenewPcs) =>
            ENABLED (IsExpiredStart(t) \/ IsExpiredNow(t)
                       \/ IsExpiredDuration(t) \/ FirstCheckStep(t))
       /\ (pc[t] = "lock" /\ ~ENABLED Lock(t)) =>
            reauth_mutex \in Threads \ {t}

\* a fast-path check_session has returned Ok, and another caller is at
\* lock(), while a renew is in flight
C16_Witness ==
  /\ pc[Loop] = "r_recv"
  /\ \E t, u \in Threads :
       /\ kind[t] = "check_session" /\ Returned(t) /\ ~slow[t]
       /\ result[t] = "Ok"
       /\ pc[u] = "lock" /\ reauth_mutex = NoOne

\* C19 -- vault_request sends nothing before check_session has returned Ok:
\* no request is out while the call is inside check_session, a call that
\* returns from inside check_session returns an error and has sent nothing,
\* a call whose login failed sends nothing, and the request that is sent
\* carries the String get_token returned after the check and
\* X-Vault-Request: true.
C19_CheckThenSend ==
  [][\A t \in Threads :
       kind'[t] = "vault_request" =>
         /\ pc'[t] \in FirstCheckPcs \cup {"lock", "c2_start", "c2_now",
                                          "c2_dur", "c2_ret"} \cup AuthPcs =>
              sent'[t] = 0 /\ ~marked'[t]
         /\ ( /\ pc[t] \in FirstCheckPcs \cup {"lock", "c2_start", "c2_now",
                                              "c2_dur", "c2_ret"} \cup AuthPcs
              /\ pc'[t] = "idle" ) =>
              /\ sent'[t] = 0
              /\ result'[t] \notin {"Ok", "none"}
         /\ ( /\ callLogins'[t] = 1 /\ lastLogin'.by = t /\ ~lastLogin'.ok
              /\ pc'[t] # "a_recv" ) =>
              /\ sent'[t] = 0
              /\ pc'[t] \in {"idle", "panicked", "aborted"}
              /\ pc'[t] = "idle" => result'[t] \notin {"Ok", "none"}
         /\ (sent'[t] # sent[t] /\ sent'[t] # 0) =>
              /\ pc[t] = "gt_clone" /\ kind[t] = "vault_request"
              /\ marked'[t]
              /\ loc[t].raw_token \notin freed => sent'[t] = loc[t].raw_token
     ]_vars

\* a vault_request has sent its request after its check passed, and another
\* one has returned SessionExpired without sending
C19_Witness ==
  \E t, u \in Threads :
    /\ kind[t] = "vault_request" /\ Returned(t)
    /\ sent[t] # 0 /\ marked[t]
    /\ kind[u] = "vault_request" /\ Returned(u)
    /\ result[u] = "SessionExpired" /\ sent[u] = 0

\* the slow path of check_session: from the lock acquired to the return
SlowPcs == {"c2_start", "c2_now", "c2_dur", "c2_ret"} \cup AuthPcs

\* a login or a renew is past its decoded answer, inside its set_* calls
StoringPcs == {"a_swap", "a_drop", "a_renewable", "a_start", "a_dur",
               "r_renewable", "r_start", "r_dur"}

\* the login the current call of t issued has been answered with a failure
LoginFailed(t) ==
  /\ callLogins[t] = 1 /\ pc[t] # "a_recv"
  /\ lastLogin.by = t /\ ~lastLogin.ok

\* with this step the check_session of t (called directly or by
\* vault_request) returns Ok(())
Passes(t) ==
  /\ kind[t] \in CheckKinds
  /\ pc[t] \notin {"idle", "vr_url", "gt_load", "gt_clone"}
  /\ \/ kind[t] = "check_session" /\ pc'[t] = "idle" /\ result'[t] = "Ok"
     \/ pc'[t] = "vr_url"

C24_OkMeansUnexpired ==
  [][\A t \in Threads :
       Passes(t) =>
         \/ pc[t] \in {"c1_ret", "c2_ret"} /\ ~loc[t].expired
         \/ pc[t] = "a_dur" /\ ~is_expired(start', now', duration')
    ]_vars

\* C24 -- a check_session that returns Ok has observed is_expired() false,
\* or has called auth under Reauth and auth returned Ok.  For the token
\* backend that auth stored nothing.  For approle and kubernetes the
\* credential is then the one this login stored, and is_expired() is false
\* exactly while fewer seconds than the lease have passed since the login's
\* clock sample.
C24_OkAfterCheckOrAuth ==
  [][\A t \in Threads :
       Passes(t) =>
         \/ pc[t] \in {"c1_ret", "c2_ret"} /\ ~loc[t].expired
         \/ /\ pc[t] = "c2_ret" /\ loc[t].expired
            /\ backend = "token" /\ renew_policy = "Reauth"
            /\ UNCHANGED store
         \/ /\ pc[t] = "a_dur" /\ Session /\ renew_policy = "Reauth"
            /\ lastLogin.ok /\ lastLogin.by = t /\ token' = lastLogin.token
            /\ start' = loc[t].current_time /\ duration' = loc[t].duration
            /\ is_expired(start', now', duration')
                 = ~(now' - loc[t].current_time < loc[t].duration)
    ]_vars

\* a check_session has returned Ok after its own login, and the lease that
\* login stored has not run out
C24_Witness ==
  \E t \in Threads :
    /\ kind[t] = "check_session" /\ Returned(t) /\ result[t] = "Ok"
    /\ callLogins[t] = 1 /\ lastLogin.ok /\ lastLogin.by = t
    /\ token = lastLogin.token /\ duration >= 1
    /\ ~is_expired(start, now, duration)

\* C25 -- at most one thread is in the slow path, and a thread in the slow
\* path holds reauth_mutex: the second is_expired(), the match on the
\* policy and auth all run under it.
C25_SlowPathExclusive ==
  /\ Cardinality({t \in Threads : pc[t] \in SlowPcs}) <= 1
  /\ \A t \in Threads : pc[t] \in SlowPcs => reauth_mutex = t

\* one caller is inside auth while another, which also found the
\* credential expired, waits at lock()
C25_Witness ==
  \E t, u \in Threads :
    /\ pc[t] = "a_recv" /\ reauth_mutex = t
    /\ pc[u] = "lock" /\ slow[u]

\* C27 -- a login or a renew that returns an error changes none of token,
\* start, duration and renewable: the step that returns the error leaves
\* them alone, and every step that changes one of them belongs to a login
\* or a renew whose answer was decoded.
C27_FailureKeepsCredential ==
  [][ /\ \A p \in Procs :
           (pc[p] \in {"a_recv", "r_load", "r_clone", "r_recv"}
              /\ pc'[p] = "idle") => UNCHANGED store
      /\ ~(UNCHANGED store) =>
           \E p \in Procs :
             /\ pc[p] \in StoringPcs
             /\ p \in Threads => lastLogin.ok /\ lastLogin.by = p
             /\ p = Loop => renewCount > renewOks
    ]_vars

\* a login has failed with a transport error and a renew with a status, and
\* the credential is still the one of construction
C27_Witness ==
  \/ \E t \in Threads :
       /\ Returned(t) /\ LoginFailed(t) /\ lastLogin.why = "transport"
       /\ token = 1 /\ start = 0 /\ duration = MaxLease /\ writers = {}
  \/ /\ Returned(Loop) /\ result[Loop] = "Unauthorized"
     /\ token = 1 /\ start = 0 /\ duration = MaxLease /\ writers = {}

\* C28 -- a login answered 200/204 with a body that cannot be decoded makes
\* its caller return the decode error: no thread panics, reauth_mutex is
\* never poisoned, and the credential stays as it was.
C28_DecodeFailureIsErr ==
  /\ ~poisoned
  /\ \A p \in Procs : pc[p] # "panicked"
  /\ \A t \in Threads :
       (LoginFailed(t) /\ lastLogin.why = "decode") =>
         /\ pc[t] \in {"idle", "aborted"}
         /\ pc[t] = "idle" => result[t] = lastLogin.err
  /\ (lastLogin.why = "decode" /\ loginCount = 1) =>
       token = 1 /\ start = 0 /\ writers = {}

\* C29 -- under Reauth the failure of a login is not shared: logins run one
\* at a time, every caller whose login failed returns the error of that
\* login, no caller ends in a panic, every error a check_session returns
\* is the one of its own login, and a waiter that took the gate and issued
\* no login has returned Ok.
C29_FailureNotShared ==
  (renew_policy = "Reauth" /\ Session) =>
    /\ Cardinality({t \in Threads : pc[t] \in AuthPcs}) <= 1
    /\ \A t \in Threads : pc[t] # "panicked"
    /\ \A t \in Threads :
         LoginFailed(t) =>
           /\ pc[t] \in {"idle", "aborted"}
           /\ pc[t] = "idle" => result[t] = lastLogin.err
    /\ \A t \in Threads :
         (kind[t] = "check_session" /\ Returned(t)) =>
           /\ result[t] # "Ok" => callLogins[t] = 1
           /\ (tookLock[t] /\ callLogins[t] = 0) => result[t] = "Ok"

\* ------------------------------------- is_expired on its own (C10) ----
\* tests/approle/is_expired.rs and tests/kubernetes/is_expired.rs: a Session
\* has logged in at time start with lease duration; one thread sleeps and
\* calls is_expired().
InitExpiry ==
  /\ renew_policy = "Reauth"
  /\ threshold = 0
  /\ backend \in {"approle", "kubernetes"}
  /\ start \in 0..MaxStart
  /\ now = start
  /\ token = 1
  /\ freed = {0}
  /\ duration \in 0..MaxDuration
  /\ renewable \in BOOLEAN
  /\ reauth_mutex = NoOne
  /\ poisoned = FALSE
  /\ aborted = FALSE
  /\ pc = [p \in Procs |-> "idle"]
  /\ kind = [p \in Procs |-> "none"]
  /\ loc = [p \in Procs |-> NoLocals]
  /\ result = [p \in Procs |-> "none"]
  /\ sent = [p \in Procs |-> 0]
  /\ got = [p \in Procs |-> 0]
  /\ marked = [p \in Procs |-> FALSE]
  /\ calls = [p \in Procs |-> 0]
  /\ slow = [p \in Procs |-> FALSE]
  /\ tookLock = [p \in Procs |-> FALSE]
  /\ startedAfterExpired = [p \in Procs |-> FALSE]
  /\ callLogins = [p \in Procs |-> 0]
  /\ everActive = {}
  /\ fastWhileLocked = FALSE
  /\ expiredSeen = FALSE
  /\ loginCount = 0
  /\ renewCount = 0
  /\ renewOks = 0
  /\ lastRenew = [at |-> 0, lease |-> 0, renewable |-> FALSE]
  /\ firstLogin = [ok |-> FALSE, start |-> 0, lease |-> 0, token |-> 0]
  /\ lastLogin = NoLogin
  /\ written = {<<0, 0>>, <<start, duration>>}
  /\ writers = {}

\* std::thread::sleep in the test
ExpirySleep ==
  /\ now < start + MaxElapsed
  /\ now' = now + 1
  /\ UNCHANGED <<conf, store, sync, outs, callHist, hist, pc, kind, loc,
                 result, expiredSeen>>

\* tmp_auth.is_expired() is called
ExpiryCall ==
  /\ pc[1] = "idle"
  /\ Goto(1, "c1_start")
  /\ kind' = [kind EXCEPT ![1] = "is_expired"]
  /\ result' = [result EXCEPT ![1] = "none"]
  /\ UNCHANGED <<conf, store, sync, outs, callHist, hist, now, loc,
                 expiredSeen>>

\* is_expired() returns elapsed >= duration
ExpiryReturn ==
  /\ pc[1] = "c1_ret"
  /\ Return(1, IF loc[1].expired THEN "true" ELSE "false")
  /\ UNCHANGED <<conf, store, sync, outs, callHist, hist, now, kind>>

NextExpiry ==
  \/ ExpirySleep
  \/ ExpiryCall
  \/ IsExpiredStart(1)
  \/ IsExpiredNow(1)
  \/ IsExpiredDuration(1)
  \/ ExpiryReturn

SpecExpiry == InitExpiry /\ [][NextExpiry]_vars

\* the whole seconds between the login and the clock sample of is_expired()
Elapsed(t) == loc[t].current_time - start

\* C10 -- is_expired() is (E >= D) for the elapsed seconds E and the lease
\* D: false at E = D - 1, true at E = D, and true whenever D = 0.
C10_IsExpired ==
  pc[1] = "c1_ret" =>
    /\ loc[1].expired = (Elapsed(1) >= duration)
    /\ Elapsed(1) = duration - 1 => ~loc[1].expired
    /\ Elapsed(1) = duration => loc[1].expired
    /\ duration = 0 => loc[1].expired

\* is_expired() has answered true exactly at the end of a lease of D >= 1
C10_Witness ==
  /\ pc[1] = "c1_ret"
  /\ duration = MaxDuration /\ Elapsed(1) = duration /\ loc[1].expired

\* ------------------------------ the renewal loop on its own (C12..) ----
\* tests/general/renew.rs: a Client under Renew(threshold) whose only
\* running thread is the one inside renew_background.
InitRenew ==
  /\ renew_policy = "Renew"
  /\ threshold \in LoopThresholds
  /\ backend \in Backends
  /\ now = 0
  /\ token = 1
  /\ freed = (IF backend = "token" THEN {} ELSE {0})
  /\ start = 0
  /\ duration \in LoopLeases
  /\ renewable \in (IF backend = "token" THEN {FALSE} ELSE BOOLEAN)
  /\ reauth_mutex = NoOne
  /\ poisoned = FALSE
  /\ aborted = FALSE
  /\ pc = [p \in Procs |-> "idle"]
  /\ kind = [p \in Procs |-> "none"]
  /\ loc = [p \in Procs |-> NoLocals]
  /\ result = [p \in Procs |-> "none"]
  /\ sent = [p \in Procs |-> 0]
  /\ got = [p \in Procs |-> 0]
  /\ marked = [p \in Procs |-> FALSE]
  /\ calls = [p \in Procs |-> 0]
  /\ slow = [p \in Procs |-> FALSE]
  /\ tookLock = [p \in Procs |-> FALSE]
  /\ startedAfterExpired = [p \in Procs |-> FALSE]
  /\ callLogins = [p \in Procs |-> 0]
  /\ everActive = {}
  /\ fastWhileLocked = FALSE
  /\ expiredSeen = FALSE
  /\ loginCount = 0
  /\ renewCount = 0
  /\ renewOks = 0
  /\ lastRenew = [at |-> 0, lease |-> 0, renewable |-> FALSE]
  /\ firstLogin = [ok |-> FALSE, start |-> 0, lease |-> 0, token |-> 0]
  /\ lastLogin = NoLogin
  /\ written = {<<0, 0>>, <<0, duration>>}
  /\ writers = {}

LoopTick ==
  /\ now < MaxLoopTime
  /\ now' = now + 1
  /\ UNCHANGED <<conf, store, sync, outs, callHist, hist, pc, kind, loc,
                 result, expiredSeen>>

LoopWake == RenewCall(MaxLoopRenews)

LoopRecv == RenewAnswer(LoopLeases)

NextRenew ==
  \/ LoopTick
  \/ RbCall
  \/ RbRenewable
  \/ RbTotal
  \/ LoopWake
  \/ LoopRecv
  \/ Shared(Loop)

SpecRenew == InitRenew /\ [][NextRenew]_vars

\* the renew errors the model follows: a transport or decode error, or the
\* Error of a status other than 200 and 204
RenewErrors == {"ReqwestError"} \cup
               {session_status(c) : c \in Statuses \ {200, 204}}

\* the loop thread is between the start of an iteration's sleep and the
\* answer to its renew
LoopBusyPcs == {"rb_total", "rb_sleep", "r_load", "r_clone", "r_recv"}

\* C12 -- while the stored renewable flag is false the loop is never past
\* the is_renewable() test of an iteration: it neither sleeps nor issues a
\* renew; once it has returned, it returned NotRenewable and every renew it
\* had issued before was a successful one.
C12_NotRenewable ==
  Session =>
    /\ ~renewable => pc[Loop] \notin LoopBusyPcs
    /\ (~renewable /\ Returned(Loop)) => result[Loop] = "NotRenewable"
    /\ result[Loop] = "NotRenewable" =>
         /\ ~renewable /\ pc[Loop] = "idle"
         /\ renewCount = renewOks

\* the loop ended NotRenewable after a renew whose answer cleared the flag
C12_Witness ==
  /\ Session /\ result[Loop] = "NotRenewable"
  /\ renewOks = 1 /\ renewCount = 1 /\ ~lastRenew.renewable

C14_SleepIsFloor ==
  [][ /\ wait_duration(60, 3) = 15
      /\ pc'[Loop] = "rb_sleep" =>
           /\ loc'[Loop].total_duration = get_total_duration'
           /\ loc'[Loop].wait_duration =
                (loc'[Loop].total_duration * (4 - threshold)) \div 4
      /\ (pc[Loop] = "rb_total" /\ pc'[Loop] = "rb_sleep") =>
           loc'[Loop].wake = now + loc'[Loop].wait_duration
      /\ renewCount' = renewCount + 1 =>
           pc[Loop] = "rb_sleep" /\ now >= loc[Loop].wake
    ]_vars

\* the renew call is issued exactly wait_duration seconds after the start
\* of the credential it renews
OnTime ==
  /\ renewCount' = renewCount + 1
  /\ Session
  /\ loc[Loop].total_duration = duration
  /\ now - start = loc[Loop].wait_duration

C17_StaticNotRenewable ==
  backend = "token" =>
    /\ pc[Loop] \notin LoopBusyPcs
    /\ renewCount = 0
    /\ Returned(Loop) => result[Loop] = "NotRenewable"

\* C18 -- renew never touches the token: the pointer and its referent stay
\* the ones of the login; once a renew has returned Ok, start, duration and
\* renewable are the time sampled after the answer, the answer's
\* lease_duration and the answer's flag, until the next answer is stored.
C18_RenewFrame ==
  Session =>
    /\ token = 1 /\ freed = {0}
    /\ sent[Loop] \in {0, 1}
    /\ (renewOks >= 1 /\ pc[Loop] \notin {"r_renewable", "r_start", "r_dur"}) =>
         /\ start = lastRenew.at
         /\ duration = lastRenew.lease
         /\ get_total_duration = lastRenew.lease
         /\ renewable = lastRenew.renewable

\* a renew answered at a later time with the longest lease has returned
C18_Witness ==
  /\ Session /\ renewOks = 1 /\ pc[Loop] = "rb_sleep"
  /\ lastRenew.at > 0 /\ lastRenew.lease = MaxLoopLease
  /\ start = lastRenew.at /\ duration = MaxLoopLease
  /\ <<0, MaxLoopLease>> \notin written

\* ------------------------------- the status mapping on its own (C20) ----
\* One thread receives the answer to a vault_request, a login or a renew
\* and maps its status code.
InitStatus ==
  /\ renew_policy = "Reauth"
  /\ threshold = 0
  /\ backend \in {"approle", "kubernetes"}
  /\ now = 0
  /\ token = 1
  /\ freed = {0}
  /\ start = 0
  /\ duration = MaxLease
  /\ renewable = TRUE
  /\ reauth_mutex = NoOne
  /\ poisoned = FALSE
  /\ aborted = FALSE
  /\ pc = [p \in Procs |-> "idle"]
  /\ kind = [p \in Procs |-> "none"]
  /\ loc = [p \in Procs |-> NoLocals]
  /\ result = [p \in Procs |-> "none"]
  /\ sent = [p \in Procs |-> 0]
  /\ got = [p \in Procs |-> 0]
  /\ marked = [p \in Procs |-> FALSE]
  /\ calls = [p \in Procs |-> 0]
  /\ slow = [p \in Procs |-> FALSE]
  /\ tookLock = [p \in Procs |-> FALSE]
  /\ startedAfterExpired = [p \in Procs |-> FALSE]
  /\ callLogins = [p \in Procs |-> 0]
  /\ everActive = {}
  /\ fastWhileLocked = FALSE
  /\ expiredSeen = FALSE
  /\ loginCount = 0
  /\ renewCount = 0
  /\ renewOks = 0
  /\ lastRenew = [at |-> 0, lease |-> 0, renewable |-> FALSE]
  /\ firstLogin = [ok |-> FALSE, start |-> 0, lease |-> 0, token |-> 0]
  /\ lastLogin = NoLogin
  /\ written = {<<0, 0>>, <<0, duration>>}
  /\ writers = {}

StatusKinds == {"vault_request", "auth", "renew"}

\* the request of a vault_request, an auth or a renew has been sent
StatusCall ==
  /\ pc[1] = "idle"
  /\ calls[1] < MaxCalls
  /\ calls' = [calls EXCEPT ![1] = @ + 1]
  /\ \E k \in StatusKinds : kind' = [kind EXCEPT ![1] = k]
  /\ Goto(1, "s_recv")
  /\ result' = [result EXCEPT ![1] = "none"]
  /\ UNCHANGED <<conf, store, sync, outs, slow, tookLock, startedAfterExpired,
                 callLogins, everActive, hist, now, loc, expiredSeen>>

\* let status_code = response.status().as_u16();
StatusRecv ==
  /\ pc[1] = "s_recv"
  /\ \E c \in StatusCodes : loc' = [loc EXCEPT ![1].status_code = c]
  /\ Goto(1, "s_match")
  /\ UNCHANGED <<conf, store, sync, outs, callHist, hist, now, kind, result,
                 expiredSeen>>

\* the match (vault_request) or the if (auth, renew) on status_code
StatusMatch ==
  /\ pc[1] = "s_match"
  /\ Return(1, IF kind[1] = "vault_request"
               THEN vault_request_status(loc[1].status_code)
               ELSE session_status(loc[1].status_code))
  /\ UNCHANGED <<conf, store, sync, outs, callHist, hist, now, kind>>

NextStatus ==
  \/ StatusCall
  \/ StatusRecv
  \/ StatusMatch

SpecStatus == InitStatus /\ [][NextStatus]_vars

\* C20 -- whichever of vault_request, login and renew receives it, a status
\* of 200 or 204 is success, 400 is InvalidRequest, 403 Unauthorized, 404
\* NotFound, 503 IsSealed and every other status Other.
C20_StatusMapping ==
  [][(pc[1] = "s_match" /\ pc'[1] = "idle") =>
       LET c == loc[1].status_code
           r == result'[1]
       IN  /\ kind[1] \in StatusKinds
           /\ r \in {"Ok", "InvalidRequest", "Unauthorized", "NotFound",
                     "IsSealed", "Other"}
           /\ r = "Ok" <=> c \in {200, 204}
           /\ r = "InvalidRequest" <=> c = 400
           /\ r = "Unauthorized" <=> c = 403
           /\ r = "NotFound" <=> c = 404
           /\ r = "IsSealed" <=> c = 503
           /\ r = "Other" <=> c \notin {200, 204, 400, 403, 404, 503}
    ]_vars

\* a vault_request has mapped a 503
C20_Witness ==
  /\ kind[1] = "vault_request" /\ pc[1] = "idle" /\ calls[1] = 1
  /\ result[1] = "IsSealed"

\* ------------------- a Session before and during Client::new (C22, C30) ----
\* tests/approle/auth.rs and tests/general/reauth.rs: one thread has built a
\* Session with Session::new; it calls is_expired(), get_token() and auth()
\* on it, or hands it to Client::new.
InitNew ==
  /\ renew_policy = "Reauth"
  /\ threshold = 0
  /\ backend \in Backends
  /\ now = 0
  /\ token = (IF backend = "token" THEN 1 ELSE Empty)
  /\ freed = {}
  /\ start = 0
  /\ duration \in (IF backend = "token" THEN Leases ELSE {0})
  /\ renewable = FALSE
  /\ reauth_mutex = NoOne
  /\ poisoned = FALSE
  /\ aborted = FALSE
  /\ pc = [p \in Procs |-> "idle"]
  /\ kind = [p \in Procs |-> "none"]
  /\ loc = [p \in Procs |-> NoLocals]
  /\ result = [p \in Procs |-> "none"]
  /\ sent = [p \in Procs |-> 0]
  /\ got = [p \in Procs |-> 0]
  /\ marked = [p \in Procs |-> FALSE]
  /\ calls = [p \in Procs |-> 0]
  /\ slow = [p \in Procs |-> FALSE]
  /\ tookLock = [p \in Procs |-> FALSE]
  /\ startedAfterExpired = [p \in Procs |-> FALSE]
  /\ callLogins = [p \in Procs |-> 0]
  /\ everActive = {}
  /\ fastWhileLocked = FALSE
  /\ expiredSeen = FALSE
  /\ loginCount = 0
  /\ renewCount = 0
  /\ renewOks = 0
  /\ lastRenew = [at |-> 0, lease |-> 0, renewable |-> FALSE]
  /\ firstLogin = [ok |-> FALSE, start |-> 0, lease |-> 0, token |-> 0]
  /\ lastLogin = NoLogin
  /\ written = {<<0, 0>>, <<0, duration>>}
  /\ writers = {}

\* the thread starts operation k on the Session; Client::new takes the
\* Session by value, so it is the last one
Begin(k) ==
  /\ pc[1] = "idle"
  /\ kind[1] # "new"
  /\ calls[1] < MaxSessionCalls
  /\ calls' = [calls EXCEPT ![1] = @ + 1]
  /\ kind' = [kind EXCEPT ![1] = k]
  /\ got' = [got EXCEPT ![1] = 0]
  /\ everActive' = everActive \cup {1}
  /\ UNCHANGED <<conf, store, sync, sent, marked, slow, tookLock,
                 startedAfterExpired, fastWhileLocked, renewCount, renewOks,
                 firstLogin, lastLogin, lastRenew, written, writers, now>>

\* tmp_auth.is_expired() or tmp_auth.get_token()
SessionCall(k) ==
  /\ Begin(k)
  /\ Goto(1, IF k = "get_token" THEN "gt_load" ELSE "c1_start")
  /\ result' = [result EXCEPT ![1] = "none"]
  /\ callLogins' = [callLogins EXCEPT ![1] = 0]
  /\ UNCHANGED <<loginCount, loc, expiredSeen>>

\* tmp_auth.auth(url) called directly (k = "auth") or by Client::new
\* (k = "new"): match auth_opts.auth(&conf.vault_url) { Err(e) => return
\* Err(e), Ok(()) => {} }.  Session::auth parses the url, which may fail,
\* and sends the login request; token::Session::auth is Ok(()).
AuthCall_NoLogin(k) ==
  /\ Begin(k)
  /\ Return(1, "Ok")
  /\ callLogins' = [callLogins EXCEPT ![1] = 0]
  /\ UNCHANGED loginCount

AuthCall(k) ==
  /\ Begin(k)
  /\ IF Session
     THEN \/ /\ Return(1, "ParseError")
             /\ callLogins' = [callLogins EXCEPT ![1] = 0]
             /\ UNCHANGED loginCount
          \/ /\ Continue(1, "a_recv")
             /\ callLogins' = [callLogins EXCEPT ![1] = 1]
             /\ loginCount' = loginCount + 1
     ELSE /\ Return(1, "Ok")
          /\ callLogins' = [callLogins EXCEPT ![1] = 0]
          /\ UNCHANGED loginCount

NextNew ==
  \/ Tick
  \/ \E k \in {"is_expired", "get_token"} : SessionCall(k)
  \/ \E k \in {"auth", "new"} : AuthCall(k)
  \/ IsExpiredStart(1)
  \/ IsExpiredNow(1)
  \/ IsExpiredDuration(1)
  \/ ExpiryReturn
  \/ AuthRecv(1)
  \/ SetTokenSwap(1)
  \/ SetTokenDrop(1)
  \/ Shared(1)

SpecNew == InitNew /\ [][NextNew]_vars

\* C22 -- an approle or kubernetes Session no auth of which has succeeded
\* holds the empty string of TokenContainer::new, start 0, duration 0 and
\* renewable false: get_token() returns the empty string, is_expired() is
\* true at every time, is_renewable() is false and get_total_duration() is
\* 0.
C22_FreshSession ==
  (Session /\ lastLogin.oks = 0) =>
    /\ token = Empty /\ Empty \notin freed
    /\ start = 0 /\ duration = 0 /\ ~renewable
    /\ ~is_renewable /\ get_total_duration = 0
    /\ is_expired(start, now, duration)
    /\ pc[1] = "c1_ret" => loc[1].expired
    /\ (kind[1] = "is_expired" /\ Returned(1)) => result[1] = "true"
    /\ (kind[1] = "get_token" /\ Returned(1)) =>
         got[1] = Empty /\ result[1] = "Ok"

\* after a failed auth, at a later time, is_expired() has answered true
C22_Witness ==
  /\ Session /\ lastLogin.oks = 0 /\ loginCount = 1
  /\ now >= 1 /\ token = Empty
  /\ kind[1] = "is_expired" /\ Returned(1) /\ result[1] = "true"

\* C30 -- Client::new calls auth once and never is_expired(): with a
\* Session it sends one login unless the url does not parse, it returns Ok
\* (the Client) exactly when that login succeeded and stored its answer,
\* whatever the lease, and otherwise the error of the login; with a static
\* token it returns Ok.
C30_NewAuthsOnce ==
  kind[1] = "new" =>
    /\ pc[1] \in {"idle", "panicked"} \cup AuthPcs
    /\ callLogins[1] <= 1
    /\ Returned(1) =>
         /\ ~Session => result[1] = "Ok"
         /\ result[1] = "ParseError" => callLogins[1] = 0
         /\ (Session /\ result[1] # "ParseError") =>
              /\ callLogins[1] = 1 /\ lastLogin.by = 1
              /\ result[1] = "Ok" <=> lastLogin.ok
              /\ ~lastLogin.ok => result[1] = lastLogin.err
              /\ lastLogin.ok => token = lastLogin.token /\ token \notin freed

\* Client::new has returned a Client whose login was answered with lease 0:
\* the credential is expired from the start
C30_Witness ==
  /\ kind[1] = "new" /\ Returned(1) /\ result[1] = "Ok"
  /\ Session /\ lastLogin.ok /\ callLogins[1] = 1
  /\ duration = 0 /\ is_expired(start, now, duration)

\* ----------------- callers racing a lapsed credential (C23) ----
\* tests/general/reauth.rs: the login of Client::new was answered with lease
\* 0, so the credential of construction is expired at every time and an
\* is_expired() that answers false has read what a later login stored.
InitLapsed ==
  /\ Init
  /\ renew_policy = "Reauth"
  /\ Session
  /\ duration = 0

LapsedCall(t, k) == CallUpTo(t, k, MaxLapsedCalls)

NextLapsed ==
  \/ Tick
  \/ \E t \in Threads, k \in CheckKinds : LapsedCall(t, k)
  \/ \E t \in Threads :
       \/ IsExpiredStart(t)
       \/ IsExpiredNow(t)
       \/ IsExpiredDuration(t)
       \/ FirstCheckStep(t)
       \/ Lock(t)
       \/ SecondCheck(t)
       \/ AuthRecv(t)
       \/ SetTokenSwap(t)
       \/ SetTokenDrop(t)
       \/ VrUrl(t)
  \/ \E t \in Threads : Shared(t)

SpecLapsed == InitLapsed /\ [][NextLapsed]_vars

\* the check_session of the current call of t has returned Ok because an
\* is_expired() of its own answered false: the first one, or the one under
\* the mutex
ObservedFresh(t) ==
  /\ kind[t] = "vault_request"
  /\ pc[t] \in {"vr_url", "gt_load", "gt_clone"}
  /\ ~slow[t] \/ (tookLock[t] /\ callLogins[t] = 0)

\* C23 -- auth stores start and duration only after the new token is
\* swapped in and the old one dropped, and a vault_request whose
\* is_expired() answered false sends, from its get_token, a token that a
\* login issued and that has not been dropped in favour of a newer one:
\* never the token of a lapsed credential.
C23_FreshMeansNewToken ==
  [][\A t \in Threads :
       /\ (pc[t] \in {"a_start", "a_dur"}) =>
            /\ lastLogin.ok /\ lastLogin.by = t
            /\ token = lastLogin.token
            /\ loc[t].raw_token \in freed
       /\ (ObservedFresh(t) /\ sent'[t] # sent[t] /\ sent'[t] # 0) =>
            /\ sent'[t] \in 2..(loginCount + 1)
            /\ sent'[t] \notin freed
    ]_vars

\* -------------------- check_session under fair scheduling (C26) ----
\* Threads that call check_session and nothing else.  Every thread that can
\* take a step is scheduled in the end, and every login is answered.
GateCall(t) == Call(t, "check_session")

GateStep(t) ==
  \/ GateCall(t)
  \/ IsExpiredStart(t)
  \/ IsExpiredNow(t)
  \/ IsExpiredDuration(t)
  \/ FirstCheckStep(t)
  \/ Lock(t)
  \/ SecondCheck(t)
  \/ AuthRecv(t)
  \/ SetTokenSwap(t)
  \/ SetTokenDrop(t)
  \/ SetRenewable(t)
  \/ SetStart(t)
  \/ SetDuration(t)

NextGate ==
  \/ Tick
  \/ \E t \in Threads : GateStep(t)

SpecGate ==
  /\ Init
  /\ [][NextGate]_vars
  /\ \A t \in Threads : WF_vars(GateStep(t))

\* C26 -- a thread outside the slow path never holds reauth_mutex, and
\* unless an auth call fails to return (it panics and poisons the mutex)
\* every check_session that was called returns.
C26_EventuallyReturns ==
  /\ [](\A t \in Threads : pc[t] \notin SlowPcs => reauth_mutex # t)
  /\ \A t \in Threads :
       (pc[t] # "idle") ~> (pc[t] = "idle" \/ poisoned)

\* two callers found the credential expired: one took the gate, its login
\* failed and it returned; the other took the gate, logged in and returned
C26_Witness ==
  \E t, u \in Threads :
    /\ t # u /\ ~poisoned
    /\ Returned(u) /\ tookLock[u] /\ callLogins[u] = 1
    /\ result[u] = "ReqwestError"
    /\ Returned(t) /\ tookLock[t] /\ callLogins[t] = 1 /\ lastLogin.by = t

\* ------------------------- the loop's returns and the clock (C31, C32) ----
\* C31 -- renew_background never returns Ok.  It returns NotEnabled only
\* from its first match, under a policy other than Renew(t); NotRenewable
\* only under Renew(t), from the test at the head of an iteration, when the
\* stored renewable flag of a session backend is false; an error of renew
\* only under Renew(t), from the answer to a renew.  Nothing else makes it
\* return: after a renew that succeeded it is back at the head of the loop.
C31_NeverReturnsOk ==
  [][ /\ result'[Loop] # "Ok"
      /\ (result[Loop] = "none" /\ result'[Loop] # "none") =>
            \/ /\ result'[Loop] = "NotEnabled"
               /\ renew_policy # "Renew" /\ pc[Loop] = "idle"
            \/ /\ result'[Loop] = "NotRenewable"
               /\ renew_policy = "Renew" /\ pc[Loop] = "rb_renewable"
               /\ Session /\ ~renewable
            \/ /\ result'[Loop] \in RenewErrors
               /\ renew_policy = "Renew" /\ pc[Loop] = "r_recv"
      /\ (pc[Loop] = "r_dur" /\ pc'[Loop] # "r_dur") =>
            pc'[Loop] \in {"rb_renewable", "aborted"}
    ]_vars

\* a renew of a session backend has succeeded, the credential is still
\* renewable, and the loop is in its next iteration
C31_Witness ==
  /\ renew_policy = "Renew" /\ Session /\ renewOks >= 1 /\ renewable
  /\ pc[Loop] \in {"rb_total", "rb_sleep"}
  /\ result[Loop] = "none"

\* C32 -- for approle and kubernetes the stored start is never ahead of the
\* clock, a start_time read by is_expired() is never ahead of the clock, and
\* once is_expired() has sampled the clock, current_time - start_time is not
\* negative, whatever auth or renew stores meanwhile.
C32_NoUnderflow ==
  Session =>
    /\ start <= now
    /\ \A t \in Procs :
         pc[t] \in {"a_swap", "a_drop", "a_renewable", "a_start",
                    "r_renewable", "r_start"} => loc[t].current_time <= now
    /\ \A t \in Threads :
         /\ pc[t] \in {"c1_now", "c2_now"} => loc[t].start_time <= now
         /\ pc[t] \in {"c1_dur", "c2_dur"} =>
              loc[t].current_time - loc[t].start_time >= 0

\* is_expired() read a start that a concurrent auth or renew stored during
\* the call, sampled the clock in the same second, and the writer is still
\* at its set_duration
C32_Witness ==
  /\ Session
  /\ \E t \in Threads, u \in Procs :
       /\ u # t
       /\ pc[t] \in {"c1_dur", "c2_dur"}
       /\ pc[u] \in {"a_dur", "r_dur"}
       /\ loc[t].start_time > 0
       /\ loc[t].start_time = loc[u].current_time
       /\ loc[t].current_time = loc[t].start_time

====
